---------------------------- MODULE Spec2Model ----------------------------
(***************************************************************************)
(* Identity & access control core of fastapi-clean-example.                *)
(*                                                                         *)
(*   Spec         ReactivateUserInteractor.__call__ run by two concurrent  *)
(*                requests against one user table                          *)
(*                (src/app/application/commands/reactivate_user.py)        *)
(*   SpecSession  settings validation at startup followed by the session   *)
(*                token lifecycle that consumes the validated settings     *)
(*                (src/app/setup/config/settings.py)                       *)
(*   SpecMerge    merge_dicts / load_full_config                           *)
(*                (src/app/setup/config/settings.py)                       *)
(*                                                                         *)
(* The ports the interactor calls (AuthorizationService, UserService,      *)
(* CurrentUserService, UserCommandGateway, TransactionManager, Username)   *)
(* and the session token service are not part of the sources at hand; they *)
(* are modelled from their written contracts (spec.md sections 4 and 6).   *)
(***************************************************************************)
EXTENDS Integers, Sequences, FiniteSets, TLC

VARIABLES
    \* ---- ReactivateUser ------------------------------------------------
    users,          \* committed user rows: username -> [role, is_active]
    policy,         \* the redundant-toggle policy chosen for UserService
    lock,           \* row locks: username -> owning request or NoProc
    pc,             \* request -> the statement of __call__ it is about to run
    request_data,   \* request -> ReactivateUserRequest.username (raw string)
    session,        \* request -> the role its session resolves to, or NoRole
    current_user,   \* request -> role of the resolved actor
    username,       \* request -> the constructed Username value
    user,           \* request -> the row loaded into its unit of work
    outcome,        \* request -> "none" | "ok" | the error raised
    trace,          \* request -> the collaborator calls made so far (history)
    commits,        \* request -> number of commit() calls (history)
    activated,      \* request -> its toggle turned is_active False -> True
    \* ---- settings + session tokens -------------------------------------
    raw_config,     \* the raw values read from the config files
    settings,       \* the validated AppSettings (empty until startup)
    startup,        \* "pending" | "ok" | "fatal"
    now,            \* the clock, in ticks
    tokens,         \* the session tokens issued so far
    last_verify,    \* what the last verify call was given and returned
    \* ---- merge_dicts ---------------------------------------------------
    dict1, dict2,   \* the config file's and the secrets file's contents
    secrets_found,  \* whether the secrets file exists
    config_loaded,  \* whether load_full_config has returned
    merged          \* load_full_config's result (empty until loaded)

vars == <<users, policy, lock, pc, request_data, session, current_user,
          username, user, outcome, trace, commits, activated,
          raw_config, settings, startup, now, tokens, last_verify,
          dict1, dict2, secrets_found, config_loaded, merged>>

interactorVars == <<users, policy, lock, pc, request_data, session,
                    current_user, username, user, outcome, trace, commits,
                    activated>>
sessionVars == <<raw_config, settings, startup, now, tokens, last_verify>>
mergeVars == <<dict1, dict2, secrets_found, config_loaded, merged>>

(***************************************************************************)
(* Domain values                                                           *)
(***************************************************************************)

\* UserRole, with its strict total order USER < ADMIN < SUPER_ADMIN.
UserRole == {"USER", "ADMIN", "SUPER_ADMIN"}

RoleRank(r) ==
    CASE r = "USER" -> 1
      [] r = "ADMIN" -> 2
      [] r = "SUPER_ADMIN" -> 3

NoRole == "none"

\* The two concurrent requests ("two simultaneous calls").
Procs == {"p1", "p2"}
NoProc == "nobody"

\* Username: non-empty, length-bounded, charset-restricted.
UsernameChars == {"a", "b", "c", "d"}
UsernameMinLen == 1
UsernameMaxLen == 3

UsernameIsValid(raw) ==
    /\ Len(raw) >= UsernameMinLen
    /\ Len(raw) <= UsernameMaxLen
    /\ \A i \in 1..Len(raw) : raw[i] \in UsernameChars

\* The rows of the user table: one user per role.
Alice == <<"a">>
Bob == <<"b">>
Carol == <<"c">>
StoredUsernames == {Alice, Bob, Carol}

StoredRole(name) ==
    CASE name = Alice -> "USER"
      [] name = Bob -> "ADMIN"
      [] name = Carol -> "SUPER_ADMIN"

\* The raw usernames a request may carry: the three stored users, a
\* well-formed name of nobody, and three malformed ones (empty, a
\* character outside the charset, too long).
RequestUsernames ==
    StoredUsernames \cup
    {<<"d">>, <<>>, <<"a", "!">>, <<"a", "b", "c", "d">>}

NoUsername == <<"-">>
NoUser == [username |-> NoUsername, role |-> NoRole, is_active |-> FALSE]

Errors == {"AuthenticationError", "AuthorizationError", "DomainFieldError",
           "UserNotFoundByUsernameError", "ActivationChangeNotPermittedError"}

Policies == {"error", "idempotent"}

(***************************************************************************)
(* Collaborators of the interactor                                         *)
(***************************************************************************)

\* AuthorizationService.authorize_for_subordinate_role: TRUE iff it returns,
\* FALSE iff it raises AuthorizationError.
CanActOn_NonStrict(actor_role, target_role) ==
    RoleRank(actor_role) >= RoleRank(target_role)

CanActOn(actor_role, target_role) ==
    \/ RoleRank(actor_role) > RoleRank(target_role)
    \/ (actor_role = "SUPER_ADMIN" /\ target_role = "SUPER_ADMIN")

\* UserService.toggle_user_activation: whether it raises
\* ActivationChangeNotPermittedError.
ToggleRefused(u, is_active, pol) ==
    \/ (u.role = "SUPER_ADMIN" /\ u.is_active /\ ~is_active)
    \/ (pol = "error" /\ u.is_active = is_active)

\* UserService.toggle_user_activation: the user after the in-place mutation.
Toggled(u, is_active) == [u EXCEPT !.is_active = is_active]

\* UserCommandGateway.read_by_username: the row, or NoUser when absent.
Row(name) ==
    IF name \in StoredUsernames
    THEN [username |-> name, role |-> users[name].role,
          is_active |-> users[name].is_active]
    ELSE NoUser

\* The locking read waits while another unit of work holds the row's lock.
ReadMayProceed(p, name, for_update) ==
    name \in StoredUsernames /\ for_update => lock[name] \in {NoProc, p}

LockAfterRead(p, name, for_update) ==
    IF name \in StoredUsernames /\ for_update
    THEN [lock EXCEPT ![name] = p]
    ELSE lock

\* The end of a unit of work (commit or rollback) releases its row locks.
Released(p) == [n \in StoredUsernames |-> IF lock[n] = p THEN NoProc ELSE lock[n]]

(***************************************************************************)
(* ReactivateUserInteractor.__call__                                       *)
(***************************************************************************)

\* The arguments the interactor passes to its collaborators.  (Here and
\* below a definition named X_Variant is a faulty variant of X, kept to
\* show that the properties depend on X.)
ForUpdate_Off == FALSE
ForUpdate == TRUE

CoarseTargetRole == "USER"

FineTargetRole_Coarse(p) == CoarseTargetRole
FineTargetRole(p) == user[p].role

RequestedIsActive_Off == FALSE
RequestedIsActive == TRUE

\* The statement order of __call__: the call that follows each call.
FirstStep == "get_current_user"

StepAfter_MutateFirst(step) ==
    CASE step = "get_current_user" -> "authorize_coarse"
      [] step = "authorize_coarse" -> "username"
      [] step = "username" -> "read"
      [] step = "read" -> "toggle"
      [] step = "toggle" -> "authorize_target"
      [] step = "authorize_target" -> "commit"
      [] step = "commit" -> "done"

StepAfter_SkipFineCheck(step) ==
    CASE step = "get_current_user" -> "authorize_coarse"
      [] step = "authorize_coarse" -> "username"
      [] step = "username" -> "read"
      [] step = "read" -> "toggle"
      [] step = "authorize_target" -> "toggle"
      [] step = "toggle" -> "commit"
      [] step = "commit" -> "done"

StepAfter_LookupFirst(step) ==
    CASE step = "get_current_user" -> "username"
      [] step = "username" -> "read"
      [] step = "read" -> "authorize_coarse"
      [] step = "authorize_coarse" -> "authorize_target"
      [] step = "authorize_target" -> "toggle"
      [] step = "toggle" -> "commit"
      [] step = "commit" -> "done"

StepAfter(step) ==
    CASE step = "get_current_user" -> "authorize_coarse"
      [] step = "authorize_coarse" -> "username"
      [] step = "username" -> "read"
      [] step = "read" -> "authorize_target"
      [] step = "authorize_target" -> "toggle"
      [] step = "toggle" -> "commit"
      [] step = "commit" -> "done"

\* An exception leaves __call__: the unit of work is rolled back.
Raise(p, err) ==
    /\ outcome' = [outcome EXCEPT ![p] = err]
    /\ pc' = [pc EXCEPT ![p] = "done"]
    /\ lock' = Released(p)

Proceed(p, step) ==
    /\ pc' = [pc EXCEPT ![p] = StepAfter(step)]
    /\ UNCHANGED outcome

Called(p, step) == trace' = [trace EXCEPT ![p] = Append(@, step)]

\* A request arrives with its session and its ReactivateUserRequest.
Call(p) ==
    /\ pc[p] = "idle"
    /\ \E raw \in RequestUsernames, s \in UserRole \cup {NoRole} :
          /\ request_data' = [request_data EXCEPT ![p] = raw]
          /\ session' = [session EXCEPT ![p] = s]
    /\ pc' = [pc EXCEPT ![p] = FirstStep]
    /\ UNCHANGED <<users, policy, lock, current_user, username, user,
                   outcome, trace, commits, activated>>

\* current_user = await self._current_user_service.get_current_user()
GetCurrentUser(p) ==
    /\ pc[p] = "get_current_user"
    /\ Called(p, "get_current_user")
    /\ IF session[p] = NoRole
       THEN /\ Raise(p, "AuthenticationError")
            /\ UNCHANGED current_user
       ELSE /\ current_user' = [current_user EXCEPT ![p] = session[p]]
            /\ Proceed(p, "get_current_user")
            /\ UNCHANGED lock
    /\ UNCHANGED <<users, policy, request_data, session, username, user,
                   commits, activated>>

\* authorize_for_subordinate_role(current_user.role, target_role=UserRole.USER)
AuthorizeCoarse(p) ==
    /\ pc[p] = "authorize_coarse"
    /\ Called(p, "authorize_coarse")
    /\ IF CanActOn(current_user[p], CoarseTargetRole)
       THEN Proceed(p, "authorize_coarse") /\ UNCHANGED lock
       ELSE Raise(p, "AuthorizationError")
    /\ UNCHANGED <<users, policy, request_data, session, current_user,
                   username, user, commits, activated>>

\* username = Username(request_data.username)
ConstructUsername(p) ==
    /\ pc[p] = "username"
    /\ Called(p, "username")
    /\ IF UsernameIsValid(request_data[p])
       THEN /\ username' = [username EXCEPT ![p] = request_data[p]]
            /\ Proceed(p, "username")
            /\ UNCHANGED lock
       ELSE /\ Raise(p, "DomainFieldError")
            /\ UNCHANGED username
    /\ UNCHANGED <<users, policy, request_data, session, current_user, user,
                   commits, activated>>

\* user = await read_by_username(username, for_update=True)
\* if user is None: raise UserNotFoundByUsernameError(username)
ReadByUsername(p) ==
    /\ pc[p] = "read"
    /\ ReadMayProceed(p, username[p], ForUpdate)
    /\ Called(p, "read")
    /\ IF Row(username[p]) = NoUser
       THEN /\ Raise(p, "UserNotFoundByUsernameError")
            /\ UNCHANGED user
       ELSE /\ user' = [user EXCEPT ![p] = Row(username[p])]
            /\ lock' = LockAfterRead(p, username[p], ForUpdate)
            /\ Proceed(p, "read")
    /\ UNCHANGED <<users, policy, request_data, session, current_user,
                   username, commits, activated>>

\* authorize_for_subordinate_role(current_user.role, target_role=user.role)
AuthorizeTarget(p) ==
    /\ pc[p] = "authorize_target"
    /\ Called(p, "authorize_target")
    /\ IF CanActOn(current_user[p], FineTargetRole(p))
       THEN Proceed(p, "authorize_target") /\ UNCHANGED lock
       ELSE Raise(p, "AuthorizationError")
    /\ UNCHANGED <<users, policy, request_data, session, current_user,
                   username, user, commits, activated>>

\* self._user_service.toggle_user_activation(user, is_active=True)
ToggleUserActivation(p) ==
    /\ pc[p] = "toggle"
    /\ Called(p, "toggle")
    /\ IF ToggleRefused(user[p], RequestedIsActive, policy)
       THEN /\ Raise(p, "ActivationChangeNotPermittedError")
            /\ UNCHANGED <<user, activated>>
       ELSE /\ user' = [user EXCEPT ![p] = Toggled(@, RequestedIsActive)]
            /\ activated' = [activated EXCEPT
                  ![p] = ~user[p].is_active /\ RequestedIsActive]
            /\ Proceed(p, "toggle")
            /\ UNCHANGED lock
    /\ UNCHANGED <<users, policy, request_data, session, current_user,
                   username, commits>>

\* await self._transaction_manager.commit()
Commit(p) ==
    /\ pc[p] = "commit"
    /\ Called(p, "commit")
    /\ commits' = [commits EXCEPT ![p] = @ + 1]
    /\ users' = [users EXCEPT ![user[p].username] =
                    [role |-> user[p].role, is_active |-> user[p].is_active]]
    /\ lock' = Released(p)
    /\ pc' = [pc EXCEPT ![p] = StepAfter("commit")]
    /\ outcome' = [outcome EXCEPT ![p] = "ok"]
    /\ UNCHANGED <<policy, request_data, session, current_user, username,
                   user, activated>>

\* The table is filled by workflows outside this core: every row may be
\* active or inactive, the super admin's included (the end-to-end property
\* of section 8 considers a hypothetically inactive super admin).
InteractorInit ==
    /\ users \in [StoredUsernames -> [role : UserRole, is_active : BOOLEAN]]
    /\ \A n \in StoredUsernames : users[n].role = StoredRole(n)
    /\ policy \in Policies
    /\ lock = [n \in StoredUsernames |-> NoProc]
    /\ pc = [p \in Procs |-> "idle"]
    /\ request_data = [p \in Procs |-> NoUsername]
    /\ session = [p \in Procs |-> NoRole]
    /\ current_user = [p \in Procs |-> NoRole]
    /\ username = [p \in Procs |-> NoUsername]
    /\ user = [p \in Procs |-> NoUser]
    /\ outcome = [p \in Procs |-> "none"]
    /\ trace = [p \in Procs |-> <<>>]
    /\ commits = [p \in Procs |-> 0]
    /\ activated = [p \in Procs |-> FALSE]

InteractorIdle ==
    /\ users = [n \in StoredUsernames |->
                   [role |-> StoredRole(n), is_active |-> TRUE]]
    /\ policy = "idempotent"
    /\ lock = [n \in StoredUsernames |-> NoProc]
    /\ pc = [p \in Procs |-> "done"]
    /\ request_data = [p \in Procs |-> NoUsername]
    /\ session = [p \in Procs |-> NoRole]
    /\ current_user = [p \in Procs |-> NoRole]
    /\ username = [p \in Procs |-> NoUsername]
    /\ user = [p \in Procs |-> NoUser]
    /\ outcome = [p \in Procs |-> "none"]
    /\ trace = [p \in Procs |-> <<>>]
    /\ commits = [p \in Procs |-> 0]
    /\ activated = [p \in Procs |-> FALSE]

SessionIdle ==
    /\ raw_config = <<>>
    /\ settings = <<>>
    /\ startup = "off"
    /\ now = 0
    /\ tokens = {}
    /\ last_verify = <<>>

MergeIdle ==
    /\ dict1 = <<>>
    /\ dict2 = <<>>
    /\ secrets_found = FALSE
    /\ config_loaded = FALSE
    /\ merged = <<>>

Init == InteractorInit /\ SessionIdle /\ MergeIdle

Next ==
    \E p \in Procs :
        \/ Call(p) /\ UNCHANGED <<sessionVars, mergeVars>>
        \/ GetCurrentUser(p) /\ UNCHANGED <<sessionVars, mergeVars>>
        \/ AuthorizeCoarse(p) /\ UNCHANGED <<sessionVars, mergeVars>>
        \/ ConstructUsername(p) /\ UNCHANGED <<sessionVars, mergeVars>>
        \/ ReadByUsername(p) /\ UNCHANGED <<sessionVars, mergeVars>>
        \/ AuthorizeTarget(p) /\ UNCHANGED <<sessionVars, mergeVars>>
        \/ ToggleUserActivation(p) /\ UNCHANGED <<sessionVars, mergeVars>>
        \/ Commit(p) /\ UNCHANGED <<sessionVars, mergeVars>>

Spec == Init /\ [][Next]_vars


(***************************************************************************)
(* Properties of ReactivateUser (checked under Spec)                       *)
(***************************************************************************)

Order == <<"get_current_user", "authorize_coarse", "username", "read",
           "authorize_target", "toggle", "commit">>

IsPrefix(s, t) == Len(s) <= Len(t) /\ \A i \in 1..Len(s) : s[i] = t[i]

Has(p, step) == \E i \in 1..Len(trace[p]) : trace[p][i] = step

Finished(p) == pc[p] = "done"

\* The request's unit of work holds a loaded row and has not ended.
InTransaction(p) == user[p] # NoUser /\ ~Finished(p)

\* The step at which each error kind is raised.
RaisedBy(err) ==
    CASE err = "AuthenticationError" -> {"get_current_user"}
      [] err = "AuthorizationError" -> {"authorize_coarse", "authorize_target"}
      [] err = "DomainFieldError" -> {"username"}
      [] err = "UserNotFoundByUsernameError" -> {"read"}
      [] err = "ActivationChangeNotPermittedError" -> {"toggle"}

\* The step of p in which its run ends successfully / with an error.
Succeeds(p) == outcome[p] = "none" /\ outcome'[p] = "ok"
Raises(p) == outcome[p] = "none" /\ outcome'[p] \in Errors

\* C1: a run that completes successfully has called commit() exactly once
\* and has left its target active; a run that raised has called commit()
\* zero times; the committed rows change only in the commit step of a
\* succeeding run, so a raising run leaves its target's is_active as it was.
C1_CommitOnceOrNever ==
    /\ [](\A p \in Procs :
            /\ outcome[p] = "ok" => commits[p] = 1 /\ Finished(p)
            /\ outcome[p] \in Errors => commits[p] = 0 /\ Finished(p)
            /\ outcome[p] = "none" => commits[p] = 0)
    /\ [][\A p \in Procs :
            /\ Succeeds(p) =>
                 /\ users'[request_data[p]].is_active
                 /\ \A n \in StoredUsernames \ {request_data[p]} :
                       users'[n] = users[n]
            /\ Raises(p) => users' = users
            /\ outcome[p] # "none" => outcome'[p] = outcome[p]]_vars
    /\ [][users' # users => \E p \in Procs : Succeeds(p)]_vars

C1_Witness ==
    \E p, q \in Procs :
        /\ session[p] = "ADMIN" /\ request_data[p] = Alice
        /\ outcome[p] = "ok" /\ commits[p] = 1 /\ activated[p]
        /\ users[Alice].is_active
        /\ session[q] = "ADMIN" /\ request_data[q] = Bob
        /\ outcome[q] = "AuthorizationError" /\ commits[q] = 0
        /\ ~users[Bob].is_active

\* C2: the calls of a run are a prefix of the fixed order 1..7; a run that
\* succeeded made all seven; a run that raised stopped at the step that
\* raises that error; between the locking read and the end of the unit of
\* work the request holds the row's lock.
C2_FixedOrder ==
    \A p \in Procs :
        /\ IsPrefix(trace[p], Order)
        /\ outcome[p] = "ok" => trace[p] = Order
        /\ outcome[p] \in Errors =>
              /\ Finished(p)
              /\ trace[p] # <<>>
              /\ trace[p][Len(trace[p])] \in RaisedBy(outcome[p])
        /\ activated[p] => Has(p, "authorize_target")
        /\ commits[p] > 0 => Has(p, "toggle")
        /\ InTransaction(p) => lock[user[p].username] = p

C2_Witness ==
    \E p, q \in Procs :
        /\ trace[p] = Order /\ outcome[p] = "ok"
        /\ trace[q] = SubSeq(Order, 1, 5) /\ outcome[q] = "AuthorizationError"

\* C3: authorize_for_subordinate_role(a, b) returns for exactly the pairs
\* with a > b and for (SUPER_ADMIN, SUPER_ADMIN), and raises
\* AuthorizationError for every other pair; both calls the interactor makes
\* pass or raise accordingly, and neither changes any row or loaded user.
AllowedPairs ==
    {<<"ADMIN", "USER">>, <<"SUPER_ADMIN", "USER">>,
     <<"SUPER_ADMIN", "ADMIN">>, <<"SUPER_ADMIN", "SUPER_ADMIN">>}

RaisedAt(p, step) ==
    /\ outcome[p] = "AuthorizationError"
    /\ trace[p][Len(trace[p])] = step

C3_AuthorizationTable ==
    /\ [](\A a, b \in UserRole : CanActOn(a, b) <=> <<a, b>> \in AllowedPairs)
    /\ [](\A p \in Procs :
            /\ Has(p, "authorize_coarse") =>
                 (RaisedAt(p, "authorize_coarse")
                    <=> <<current_user[p], "USER">> \notin AllowedPairs)
            /\ Has(p, "authorize_target") =>
                 (RaisedAt(p, "authorize_target")
                    <=> <<current_user[p], user[p].role>> \notin AllowedPairs))
    /\ [][\A p \in Procs :
            (pc[p] \in {"authorize_coarse", "authorize_target"}
               /\ trace'[p] # trace[p])
            => UNCHANGED <<users, user, current_user, username, commits,
                           activated, policy>>]_vars

C3_Witness ==
    \E p, q \in Procs :
        /\ current_user[p] = "SUPER_ADMIN" /\ user[p].role = "SUPER_ADMIN"
        /\ Has(p, "authorize_target") /\ outcome[p] = "ok"
        /\ current_user[q] = "ADMIN" /\ user[q].role = "ADMIN"
        /\ RaisedAt(q, "authorize_target")

\* C4: of two calls targeting the same username at most one performs the
\* inactive-to-active transition; their units of work on that row never
\* overlap; when both have run their toggle the row is active, exactly the
\* one that read it inactive activated it, and the one that read it active
\* followed the redundant-toggle policy; a committed row changes only from
\* inactive to active, in the commit of the run that activated it.
SameTarget(p, q) == p # q /\ user[p] # NoUser /\ user[p].username = user[q].username

C4_OneTransition ==
    /\ [](\A p, q \in Procs :
            SameTarget(p, q) =>
                /\ ~(InTransaction(p) /\ InTransaction(q))
                /\ ~(activated[p] /\ activated[q])
                /\ (Finished(p) /\ Finished(q)
                      /\ Has(p, "toggle") /\ Has(q, "toggle"))
                      => /\ users[user[p].username].is_active
                         /\ ~activated[q] =>
                              outcome[q] =
                                 IF policy = "error"
                                 THEN "ActivationChangeNotPermittedError"
                                 ELSE "ok")
    /\ [][\A n \in StoredUsernames :
            users'[n] # users[n] =>
                /\ ~users[n].is_active /\ users'[n].is_active
                /\ \E p \in Procs :
                      Succeeds(p) /\ activated[p] /\ user[p].username = n]_vars

C4_Witness ==
    \E p, q \in Procs :
        /\ SameTarget(p, q) /\ user[p].username = Alice
        /\ Finished(p) /\ Finished(q)
        /\ activated[p] /\ outcome[p] = "ok"
        /\ Has(q, "toggle") /\ ~activated[q]
        /\ outcome[q] = "ActivationChangeNotPermittedError"

C6_OnlySuperAdminReactivatesAdmin ==
    /\ [](\A p \in Procs :
            (request_data[p] = Bob /\ session[p] \in {"USER", "ADMIN"})
               => /\ ~activated[p] /\ commits[p] = 0 /\ ~Has(p, "toggle")
                  /\ Finished(p) =>
                        /\ outcome[p] = "AuthorizationError"
                        /\ session[p] = "ADMIN" => trace[p] = SubSeq(Order, 1, 5))
    /\ [][users'[Bob] # users[Bob] =>
            \E p \in Procs :
                /\ Succeeds(p)
                /\ request_data[p] = Bob
                /\ current_user[p] = "SUPER_ADMIN"]_vars

C6_Witness ==
    \E p, q \in Procs :
        /\ session[p] = "ADMIN" /\ request_data[p] = Bob
        /\ outcome[p] = "AuthorizationError" /\ trace[p] = SubSeq(Order, 1, 5)
        /\ session[q] = "SUPER_ADMIN" /\ request_data[q] = Bob
        /\ activated[q] /\ outcome[q] = "ok" /\ users[Bob].is_active

\* C7: a run whose actor is USER never constructs the Username and never
\* reads a row; it ends with AuthorizationError after exactly the calls
\* get_current_user and authorize (coarse), whatever the requested username
\* and whatever the rows hold: two such runs are indistinguishable.
C7_UserActorLearnsNothing ==
    /\ \A p \in Procs :
          session[p] = "USER" =>
             /\ ~Has(p, "username") /\ ~Has(p, "read")
             /\ username[p] = NoUsername /\ user[p] = NoUser
             /\ \A n \in StoredUsernames : lock[n] # p
             /\ Finished(p) =>
                   /\ outcome[p] = "AuthorizationError"
                   /\ trace[p] = SubSeq(Order, 1, 2)
    /\ \A p, q \in Procs :
          (session[p] = "USER" /\ session[q] = "USER"
             /\ Finished(p) /\ Finished(q))
          => outcome[p] = outcome[q] /\ trace[p] = trace[q]

C7_Witness ==
    \E p, q \in Procs :
        /\ session[p] = "USER" /\ session[q] = "USER"
        /\ request_data[p] = <<"a", "!">> /\ request_data[q] = Alice
        /\ Finished(p) /\ Finished(q)
        /\ outcome[p] = "AuthorizationError" /\ outcome[q] = "AuthorizationError"

(***************************************************************************)
(* Settings validation (settings.py)                                       *)
(***************************************************************************)

\* Raw config values are typed as rtoml loads them; a number is held in
\* units of 1/Scale, and the clock ticks TicksPerMinute times a minute.
Scale == 4
TicksPerMinute == 2
MinPort == 1
MaxPort == 65535

IntValue(n) == [type |-> "int", q |-> n * Scale]
FloatValue(q) == [type |-> "float", q |-> q]
BoolValue(b) == [type |-> "bool", q |-> IF b THEN Scale ELSE 0]
StrValue == [type |-> "str", q |-> 0]

\* isinstance(v, (int, float)): bool is a subclass of int.
IsIntOrFloat(v) == v.type \in {"int", "float", "bool"}

\* timedelta(minutes=v), in ticks.
TimedeltaSeconds(v) == (v.q * TicksPerMinute) \div (Scale * 60)
TimedeltaMinutes(v) == (v.q * TicksPerMinute) \div Scale

Invalid == [ok |-> FALSE, value |-> 0]
Valid(x) == [ok |-> TRUE, value |-> x]

\* AuthSettings.convert_session_ttl_min
convert_session_ttl_min(v) ==
    IF ~IsIntOrFloat(v) THEN Invalid
    ELSE IF v.q < 1 * Scale THEN Invalid
    ELSE Valid(TimedeltaMinutes(v))

\* AuthSettings.validate_session_refresh_threshold (the fraction is kept in
\* units of 1/Scale)
validate_session_refresh_threshold(v) ==
    IF ~IsIntOrFloat(v) THEN Invalid
    ELSE IF ~(0 < v.q /\ v.q < 1 * Scale) THEN Invalid
    ELSE Valid(v.q)

\* PostgresSettings.validate_port_range (v: int)
validate_port_range(v) ==
    IF ~(MinPort <= v /\ v <= MaxPort) THEN Invalid ELSE Valid(v)

\* AppSettings.model_validate: every field validator must pass.
model_validate(raw) ==
    LET ttl == convert_session_ttl_min(raw.SESSION_TTL_MIN)
        thr == validate_session_refresh_threshold(raw.SESSION_REFRESH_THRESHOLD)
        port == validate_port_range(raw.PORT)
    IN  IF ttl.ok /\ thr.ok /\ port.ok
        THEN Valid([session_ttl_min |-> ttl.value,
                    session_refresh_threshold |-> thr.value,
                    port |-> port.value])
        ELSE Invalid

\* The raw values the config files may hold.
RawTtlValues ==
    {IntValue(0), IntValue(1), IntValue(2), IntValue(-1),
     FloatValue(Scale - 1), FloatValue(Scale + 2),
     BoolValue(TRUE), BoolValue(FALSE), StrValue}

RawThresholdValues ==
    {IntValue(0), IntValue(1), FloatValue(1), FloatValue(2),
     FloatValue(Scale - 1), FloatValue(Scale + 1), FloatValue(-1),
     BoolValue(TRUE), BoolValue(FALSE), StrValue}

RawPortValues == {0, 1, 65535, 65536}

RawConfigs ==
    [SESSION_TTL_MIN : RawTtlValues,
     SESSION_REFRESH_THRESHOLD : RawThresholdValues,
     PORT : RawPortValues]

\* load_settings: AppSettings.model_validate(raw_config); a validation
\* error is fatal at startup.
LoadSettings ==
    /\ startup = "pending"
    /\ LET r == model_validate(raw_config)
       IN  IF r.ok
           THEN settings' = r.value /\ startup' = "ok"
           ELSE settings' = settings /\ startup' = "fatal"
    /\ UNCHANGED <<raw_config, now, tokens, last_verify>>

(***************************************************************************)
(* SessionTokenService                                                     *)
(***************************************************************************)

MaxTime == 6
MaxTokens == 2

UserIds == {"u1", "u2"}

NoToken == [sub |-> "nobody", iat |-> 0, exp |-> 0, sig |-> "none"]
NoVerify == [token |-> NoToken, at |-> 0, result |-> "none",
             subject |-> "nobody", returned |-> NoToken]

\* issue(user_id): issued-at = now, expires-at = now + session_ttl, signed.
Issue(uid, t) ==
    [sub |-> uid, iat |-> t, exp |-> t + settings.session_ttl_min,
     sig |-> "valid"]

\* A token whose payload was altered after signing.
Tampered(tok) == [tok EXCEPT !.exp = MaxTime + 1, !.sig = "invalid"]

\* elapsed_fraction >= session_refresh_threshold
ShouldRefresh(tok, t) ==
    (t - tok.iat) * Scale >= settings.session_refresh_threshold * (tok.exp - tok.iat)

\* verify(token): the subject and the token the caller holds afterwards.
Verify(tok, t) ==
    IF tok.sig # "valid" \/ t >= tok.exp
    THEN [token |-> tok, at |-> t, result |-> "AuthenticationError",
          subject |-> "nobody", returned |-> NoToken]
    ELSE [token |-> tok, at |-> t, result |-> "ok", subject |-> tok.sub,
          returned |-> IF ShouldRefresh(tok, t) THEN Issue(tok.sub, t) ELSE tok]

IssueToken ==
    /\ startup = "ok"
    /\ Cardinality(tokens) < MaxTokens
    /\ \E uid \in UserIds : tokens' = tokens \cup {Issue(uid, now)}
    /\ UNCHANGED <<raw_config, settings, startup, now, last_verify>>

Tick ==
    /\ startup = "ok"
    /\ now < MaxTime
    /\ now' = now + 1
    /\ UNCHANGED <<raw_config, settings, startup, tokens, last_verify>>

VerifyToken ==
    /\ startup = "ok"
    /\ \E t \in tokens, tampered \in BOOLEAN :
          LET tok == IF tampered THEN Tampered(t) ELSE t
              r == Verify(tok, now)
          IN  /\ Cardinality((tokens \cup {r.returned}) \ {NoToken}) <= MaxTokens
              /\ last_verify' = r
              /\ tokens' = (tokens \cup {r.returned}) \ {NoToken}
    /\ UNCHANGED <<raw_config, settings, startup, now>>

SessionInit ==
    /\ raw_config \in RawConfigs
    /\ settings = <<>>
    /\ startup = "pending"
    /\ now = 0
    /\ tokens = {}
    /\ last_verify = NoVerify

InitSession == InteractorIdle /\ SessionInit /\ MergeIdle

NextSession ==
    \/ LoadSettings /\ UNCHANGED <<interactorVars, mergeVars>>
    \/ IssueToken /\ UNCHANGED <<interactorVars, mergeVars>>
    \/ Tick /\ UNCHANGED <<interactorVars, mergeVars>>
    \/ VerifyToken /\ UNCHANGED <<interactorVars, mergeVars>>

SpecSession == InitSession /\ [][NextSession]_vars

(***************************************************************************)
(* Properties of the settings and the session tokens (SpecSession)         *)
(***************************************************************************)

\* The configured SESSION_TTL_MIN minutes and SESSION_REFRESH_THRESHOLD, as
\* written in the config file.
ConfiguredTtl == (raw_config.SESSION_TTL_MIN.q * TicksPerMinute) \div Scale
ConfiguredThreshold == raw_config.SESSION_REFRESH_THRESHOLD.q

\* elapsed / window >= threshold, the threshold being in units of 1/Scale
InRefreshWindow(tok, t) ==
    (t - tok.iat) * Scale >= ConfiguredThreshold * (tok.exp - tok.iat)

\* C8: every token lives SESSION_TTL_MIN minutes from its issue; a verify
\* of a token with a valid signature at issued_at <= now < expires_at
\* returns its subject and issues a replacement iff the elapsed fraction
\* has reached SESSION_REFRESH_THRESHOLD, the replacement expiring at
\* now + session_ttl; below the threshold it returns the token unchanged;
\* at now >= expires_at the verify fails with AuthenticationError.
C8_SlidingRefresh ==
    /\ \A tok \in tokens : tok.sig = "valid" /\ tok.exp = tok.iat + ConfiguredTtl
    /\ last_verify # NoVerify =>
          LET tok == last_verify.token
              t == last_verify.at
          IN  /\ (tok.sig = "valid" /\ tok.iat <= t /\ t < tok.exp) =>
                    /\ last_verify.result = "ok"
                    /\ last_verify.subject = tok.sub
                    /\ InRefreshWindow(tok, t) =>
                          /\ last_verify.returned # tok
                          /\ last_verify.returned \in tokens
                          /\ last_verify.returned.sub = tok.sub
                          /\ last_verify.returned.iat = t
                          /\ last_verify.returned.exp = t + ConfiguredTtl
                    /\ ~InRefreshWindow(tok, t) => last_verify.returned = tok
              /\ (tok.sig # "valid" \/ t >= tok.exp) =>
                    /\ last_verify.result = "AuthenticationError"
                    /\ last_verify.returned = NoToken

\* ttl = 2 minutes, threshold = 1/2: a verify past half of the window has
\* returned a replacement, while the original token has since expired.
C8_Witness ==
    /\ raw_config.SESSION_TTL_MIN = IntValue(2)
    /\ ConfiguredThreshold * 2 = Scale
    /\ last_verify.result = "ok"
    /\ last_verify.token.iat = 0
    /\ (last_verify.at - last_verify.token.iat) * 2 > ConfiguredTtl
    /\ last_verify.returned # last_verify.token
    /\ last_verify.returned.exp = last_verify.at + ConfiguredTtl
    /\ now >= last_verify.token.exp
    /\ now < last_verify.returned.exp

\* C9 (as claimed): startup succeeds only if SESSION_TTL_MIN is a number
\* >= 1, SESSION_REFRESH_THRESHOLD a number strictly between 0 and 1 and
\* PORT within 1..65535; any value outside these ranges or of a type that
\* is not a number is fatal; the settings hold the validated values.
IsNumber(v) == v.type \in {"int", "float"}

C9_AsClaimed ==
    LET ttl == raw_config.SESSION_TTL_MIN
        thr == raw_config.SESSION_REFRESH_THRESHOLD
        port == raw_config.PORT
        acceptable ==
            /\ IsNumber(ttl) /\ ttl.q >= Scale
            /\ IsNumber(thr) /\ 0 < thr.q /\ thr.q < Scale
            /\ 1 <= port /\ port <= 65535
    IN  /\ startup = "ok" =>
              /\ acceptable
              /\ settings.session_ttl_min >= TicksPerMinute
              /\ 0 < settings.session_refresh_threshold
              /\ settings.session_refresh_threshold < Scale
              /\ 1 <= settings.port /\ settings.port <= 65535
        /\ startup = "fatal" => ~acceptable

(***************************************************************************)
(* merge_dicts and load_full_config (settings.py)                          *)
(***************************************************************************)

\* A dict[str, Any] is a function from its keys to values; a value is a
\* scalar or a nested dict.
ConfigKeys == {"a", "b"}
ScalarValues == {1, 2}

Scalar(x) == [kind |-> "scalar", val |-> x]
Dict(d) == [kind |-> "dict", val |-> d]
IsDict(v) == v.kind = "dict"

DictsOver(values) == UNION {[ks -> values] : ks \in SUBSET ConfigKeys}

FlatDicts == DictsOver({Scalar(x) : x \in ScalarValues})
NestedDicts ==
    DictsOver({Scalar(x) : x \in ScalarValues} \cup {Dict(d) : d \in FlatDicts})

\* result[key] = value
SetItem(d, key, value) ==
    [k \in DOMAIN d \cup {key} |-> IF k = key THEN value ELSE d[k]]

RECURSIVE merge_dicts(_, _)
RECURSIVE MergeItems(_, _, _)

\* for key, value in dict2.items(): ... (the items of dict2 still to visit)
MergeItems(result, d2, keys) ==
    IF keys = {} THEN result
    ELSE LET key == CHOOSE k \in keys : TRUE
             value == d2[key]
         IN  IF key \in DOMAIN result /\ IsDict(result[key]) /\ IsDict(value)
             THEN MergeItems(
                      SetItem(result, key,
                              Dict(merge_dicts(result[key].val, value.val))),
                      d2, keys \ {key})
             ELSE MergeItems(SetItem(result, key, value), d2, keys \ {key})

\* result = dict1.copy(); result.update(dict2)
merge_dicts_Shallow(d1, d2) ==
    [k \in DOMAIN d1 \cup DOMAIN d2 |-> IF k \in DOMAIN d2 THEN d2[k] ELSE d1[k]]

\* result = dict1.copy(); the loop over dict2.items(); return result
merge_dicts(d1, d2) == MergeItems(d1, d2, DOMAIN d2)

\* load_full_config: the config file, merged with the secrets file when
\* that file is found.
LoadFullConfig ==
    /\ ~config_loaded
    /\ merged' = IF secrets_found THEN merge_dicts(dict1, dict2) ELSE dict1
    /\ config_loaded' = TRUE
    /\ UNCHANGED <<dict1, dict2, secrets_found>>

MergeInit ==
    /\ dict1 \in NestedDicts
    /\ dict2 \in NestedDicts
    /\ secrets_found \in BOOLEAN
    /\ config_loaded = FALSE
    /\ merged = <<>>

InitMerge == InteractorIdle /\ SessionIdle /\ MergeInit

NextMerge == LoadFullConfig /\ UNCHANGED <<interactorVars, sessionVars>>

SpecMerge == InitMerge /\ [][NextMerge]_vars

(***************************************************************************)
(* Properties of merge_dicts (SpecMerge)                                   *)
(***************************************************************************)

\* Whether m is the right-biased union of d1 and d2 at this level, nested
\* dicts being compared by the same rule one level down.
IsFlatUnion(m, d1, d2) ==
    /\ DOMAIN m = DOMAIN d1 \cup DOMAIN d2
    /\ \A k \in DOMAIN m :
          IF k \in DOMAIN d2 THEN m[k] = d2[k] ELSE m[k] = d1[k]

IsRightBiasedUnion(m, d1, d2) ==
    /\ DOMAIN m = DOMAIN d1 \cup DOMAIN d2
    /\ \A k \in DOMAIN m :
          IF k \notin DOMAIN d2 THEN m[k] = d1[k]
          ELSE IF k \in DOMAIN d1 /\ IsDict(d1[k]) /\ IsDict(d2[k])
               THEN /\ IsDict(m[k])
                    /\ IsFlatUnion(m[k].val, d1[k].val, d2[k].val)
               ELSE m[k] = d2[k]

\* C10: merge_dicts(dict1, dict2) is the recursive right-biased union of
\* its arguments; in load_full_config's result every scalar of the secrets
\* file stands at its path, and every key of the config file that the
\* secrets file does not hold at the same level keeps the config's value.
C10_RightBiasedUnion ==
    config_loaded =>
        IF ~secrets_found THEN merged = dict1
        ELSE /\ IsRightBiasedUnion(merged, dict1, dict2)
             /\ \A k \in DOMAIN dict2 :
                   /\ ~IsDict(dict2[k]) => merged[k] = dict2[k]
                   /\ IsDict(dict2[k]) =>
                         /\ IsDict(merged[k])
                         /\ \A j \in DOMAIN dict2[k].val :
                               merged[k].val[j] = dict2[k].val[j]
             /\ \A k \in DOMAIN dict1 :
                   /\ k \notin DOMAIN dict2 => merged[k] = dict1[k]
                   /\ (k \in DOMAIN dict2 /\ IsDict(dict1[k]) /\ IsDict(dict2[k])) =>
                         \A j \in DOMAIN dict1[k].val \ DOMAIN dict2[k].val :
                             merged[k].val[j] = dict1[k].val[j]

\* config {a: {a: 1, b: 1}, b: 1} merged with secrets {a: {b: 2}}
C10_Witness ==
    /\ config_loaded /\ secrets_found
    /\ dict1 = [k \in {"a", "b"} |->
                  IF k = "a" THEN Dict([j \in {"a", "b"} |-> Scalar(1)])
                  ELSE Scalar(1)]
    /\ dict2 = [k \in {"a"} |-> Dict([j \in {"b"} |-> Scalar(2)])]
    /\ merged["a"].val["a"] = Scalar(1)
    /\ merged["a"].val["b"] = Scalar(2)
    /\ merged["b"] = Scalar(1)

=============================================================================
